---- MODULE Spec2Model ----
(***************************************************************************)
(* Credential token lifecycle of EduTutor (core_auth): OTP issuance,       *)
(* verification, expiry and the three-step password reset flow; and the    *)
(* quiz grading ledger of academics: submission, scoring, grading and the  *)
(* per-student performance summary.                                        *)
(*                                                                         *)
(* Spec      runs every service call as one uninterrupted handler.         *)
(* SpecConc  runs generate_otp and verify_otp calls in two worker          *)
(*           processes, one ORM statement per step (the project sets no    *)
(*           ATOMIC_REQUESTS and opens no transaction, so every statement  *)
(*           autocommits).                                                 *)
(* SpecRequest  runs the forgot-password endpoints, with the mail task     *)
(*           queue as a collaborator whose delay() call may raise.         *)
(* SpecQuiz  runs the quiz endpoints and the account deletion endpoint.    *)
(* SpecGrade applies calculate_grade to percentages of a bounded grid.     *)
(* SpecIsolation runs the OTP calls of two users and two purposes.         *)
(* SpecToken runs the PasswordResetToken calls beside account deletion.    *)
(* SpecProfile runs registration, email verification and profile update.   *)
(* SpecParent runs the parent dashboard endpoints.                         *)
(***************************************************************************)
EXTENDS Integers, Sequences, FiniteSets, TLC

\* ---------------------------------------------------------------- bounds
MaxTokens == 2
MaxTime == 12
TickStep == 6
MaxAttempts == 2        \* StudentQuizAttempt rows ever created
GradeScale == 1000      \* percentages of SpecGrade are multiples of 1 / GradeScale
MaxResetTokens == 3     \* PasswordResetToken rows stored at once
MaxLinks == 3           \* ParentStudent rows stored at once

\* ------------------------------------------------------ program constants
OTP_EXPIRY_MINUTES == 10
RESET_WINDOW_MINUTES == 10

PASSWORD_RESET == "password_reset"
EMAIL_VERIFICATION == "email_verification"
CHANGE_PASSWORD == "change_password"
OTPPurpose == {PASSWORD_RESET, EMAIL_VERIFICATION, CHANGE_PASSWORD}

\* ------------------------------------------------------------ input sets
Users == {"u1", "u2"}           \* the stored accounts
Actors == {"u1"}                \* the accounts whose requests are explored
Codes == {"1111", "2222"}       \* OTP codes drawn by generate_otp / typed by callers
Passwords == {"pw1", "pw2"}     \* new passwords typed by callers
IssuedPurposes == {PASSWORD_RESET, EMAIL_VERIFICATION}
Procs == {"w1", "w2"}           \* concurrent request workers of SpecConc

VARIABLES
    otp_tokens,         \* table OTPToken: sequence of rows, pk = index
    password,           \* User.password, per user
    is_email_verified,  \* User.is_email_verified, per user
    now,                \* timezone.now(), in minutes
    last,               \* the call that returned last, with its result
    verified_at,        \* history: time of the user's latest successful consuming
                        \* verification of a password-reset OTP, -1 if none
    reset_since,        \* history: reset_password was called for the user after
                        \* that verification
    accepts,            \* history: per token row, how many consuming verify_otp
                        \* calls returned True for it
    pc,                 \* per worker: the statement it is about to run
    loc,                \* per worker: arguments and locals of its running call
    outbox,             \* mail tasks queued by delay(), oldest first
    dispatch,           \* outcome of the latest delay() call
    response,           \* latest HTTP response of ForgotPasswordRequestView
    accounts,           \* table User: the stored accounts
    questions,          \* table QuizQuestion: id -> row
    quizzes,            \* table Quiz with its questions relation: id -> row
    attempts,           \* table StudentQuizAttempt: sequence of rows in pk order
    attempt_seq,        \* the pk the next StudentQuizAttempt row gets, less one
    quiz_last,          \* the quiz endpoint call that returned last, with its response
    percentage,         \* progress_percentage of the instance calculate_grade runs on
    grade,              \* the grade calculate_grade returned for it
    reset_tokens,       \* table PasswordResetToken: sequence of rows, pk = index
    email,              \* User.email, per user row ever stored
    role,               \* User.role, per user row ever stored
    profiles,           \* tables StudentProfile, TeacherProfile, ParentProfile: rows
    links,              \* table ParentStudent: sequence of rows, pk = index
    view_last           \* the account or parent-dashboard call that returned last

mail_vars == <<outbox, dispatch, response>>
quiz_vars == <<accounts, questions, quizzes, attempts, attempt_seq, quiz_last>>
grade_vars == <<percentage, grade>>
reset_vars == <<reset_tokens>>
user_vars == <<email, role, profiles>>
link_vars == <<links, view_last>>
account_vars == <<reset_vars, user_vars, link_vars>>

vars == <<otp_tokens, password, is_email_verified, now, last, verified_at, reset_since,
          accepts, pc, loc, mail_vars, quiz_vars, grade_vars, account_vars>>

NoCall == [op |-> "none", user |-> "", otp |-> "", purpose |-> "",
           validate_only |-> FALSE, result |-> "None", pk |-> 0]

NoLocals == [op |-> "none", user |-> "", otp |-> "", purpose |-> "",
             validate_only |-> FALSE, pk |-> 0]

Returned(op, user, otp, purpose, validate_only, result, pk) ==
    [op |-> op, user |-> user, otp |-> otp, purpose |-> purpose,
     validate_only |-> validate_only, result |-> result, pk |-> pk]

Locals(op, user, otp, purpose, validate_only, pk) ==
    [op |-> op, user |-> user, otp |-> otp, purpose |-> purpose,
     validate_only |-> validate_only, pk |-> pk]

\* ------------------------------------------------------- model OTPToken
PKs(toks) == 1..Len(toks)

\* variant: a token never expires
is_expired_never(tok, t) == FALSE

\* OTPToken.is_expired
is_expired(tok, t) == t > tok.expires_at

\* variant: is_valid without the expiry test
is_valid_unused_only(tok, t) == ~tok.is_used

\* OTPToken.is_valid
is_valid(tok, t) == ~tok.is_used /\ ~is_expired(tok, t)

\* variant: the flag is set on the instance but never saved
mark_as_used_unsaved(toks, k) == toks

\* OTPToken.mark_as_used: UPDATE ... SET is_used = TRUE WHERE pk = k
mark_as_used(toks, k) == [toks EXCEPT ![k].is_used = TRUE]

\* variant: create_otp without the invalidation statement
InvalidateUnused_skipped(toks, user, purpose) == toks

\* first statement of create_otp: filter(user, purpose, is_used=False).update(is_used=True)
InvalidateUnused(toks, user, purpose) ==
    [k \in PKs(toks) |->
        IF toks[k].user = user /\ toks[k].purpose = purpose /\ ~toks[k].is_used
        THEN [toks[k] EXCEPT !.is_used = TRUE]
        ELSE toks[k]]

\* second statement of create_otp: objects.create(...)
InsertToken(toks, user, purpose, code, t) ==
    Append(toks, [user |-> user, token |-> code, purpose |-> purpose,
                  is_used |-> FALSE, created_at |-> t,
                  expires_at |-> t + OTP_EXPIRY_MINUTES])

\* OTPToken.create_otp run without interruption
create_otp(toks, user, purpose, code, t) ==
    InsertToken(InvalidateUnused(toks, user, purpose), user, purpose, code, t)

\* variant: the lookup without the user filter
Lookup_any_user(toks, user, otp, purpose) ==
    {k \in PKs(toks) : /\ toks[k].token = otp
                       /\ toks[k].purpose = purpose
                       /\ ~toks[k].is_used}

\* the rows OTPToken.objects.get(user, token, purpose, is_used=False) selects
Lookup(toks, user, otp, purpose) ==
    {k \in PKs(toks) : /\ toks[k].user = user
                       /\ toks[k].token = otp
                       /\ toks[k].purpose = purpose
                       /\ ~toks[k].is_used}

\* verify_otp run without interruption: <<return value, pk acted on>>
\* get() raises DoesNotExist on no row (caught) and MultipleObjectsReturned
\* on several rows (not caught).
verify_otp_result(toks, user, otp, purpose, t) ==
    LET found == Lookup(toks, user, otp, purpose) IN
    IF found = {} THEN <<"False", 0>>
    ELSE IF Cardinality(found) > 1 THEN <<"MultipleObjectsReturned", 0>>
    ELSE LET k == CHOOSE x \in found : TRUE IN
         IF ~is_valid(toks[k], t) THEN <<"False", k>> ELSE <<"True", k>>

\* variant: validate_only is ignored, every successful verify consumes
verify_otp_tokens_consuming(toks, user, otp, purpose, validate_only, t) ==
    LET r == verify_otp_result(toks, user, otp, purpose, t) IN
    IF r[1] = "True" THEN [toks EXCEPT ![r[2]].is_used = TRUE] ELSE toks

\* the token table verify_otp leaves behind
verify_otp_tokens(toks, user, otp, purpose, validate_only, t) ==
    LET r == verify_otp_result(toks, user, otp, purpose, t) IN
    IF r[1] = "True" /\ ~validate_only THEN mark_as_used(toks, r[2]) ELSE toks

\* variant: the recent_otp query without the created_at filter
recent_otp_any_age(toks, user, t) ==
    \E k \in PKs(toks) : /\ toks[k].user = user
                         /\ toks[k].purpose = PASSWORD_RESET
                         /\ toks[k].is_used

\* reset_password: the recent_otp query
recent_otp(toks, user, t) ==
    \E k \in PKs(toks) : /\ toks[k].user = user
                         /\ toks[k].purpose = PASSWORD_RESET
                         /\ toks[k].is_used
                         /\ toks[k].created_at >= t - RESET_WINDOW_MINUTES

\* reset_password: filter(user, purpose=PASSWORD_RESET).update(is_used=True)
InvalidateAllReset(toks, user) ==
    [k \in PKs(toks) |->
        IF toks[k].user = user /\ toks[k].purpose = PASSWORD_RESET
        THEN [toks[k] EXCEPT !.is_used = TRUE]
        ELSE toks[k]]

\* history bookkeeping of a verify_otp call that returned r = <<result, pk>>
Accepted(acc, r, validate_only) ==
    IF r[1] = "True" /\ ~validate_only THEN [acc EXCEPT ![r[2]] = @ + 1] ELSE acc

VerifiedAt(va, r, user, purpose, validate_only, t) ==
    IF r[1] = "True" /\ ~validate_only /\ purpose = PASSWORD_RESET
    THEN [va EXCEPT ![user] = t] ELSE va

ResetSince(rs, r, user, purpose, validate_only) ==
    IF r[1] = "True" /\ ~validate_only /\ purpose = PASSWORD_RESET
    THEN [rs EXCEPT ![user] = FALSE] ELSE rs

\* ------------------------------------------- model forgot-password request
Emails == {"u1@edu.io", "U1@Edu.io", "nobody@edu.io"}   \* addresses typed by callers

\* User.email of the accounts stored at the start
InitialEmails == [u \in Users |-> IF u = "u1" THEN "u1@edu.io" ELSE "u2@edu.io"]

\* str.lower on the addresses callers type and the addresses stored
lower(e) ==
    CASE e = "U1@Edu.io" -> "u1@edu.io"
      [] e \in {"ann@Edu.io", "Ann@Edu.io", "Ann@edu.io"} -> "ann@edu.io"
      [] OTHER -> e

\* services.get_user_by_email: the account with that lowercased address, or None
get_user_by_email(accts, e) ==
    IF \E u \in accts : email[u] = lower(e)
    THEN CHOOSE u \in accts : email[u] = lower(e)
    ELSE "None"

\* variant: the exception of delay() is not caught
send_password_reset_otp_email_uncaught(raised) == IF raised THEN "Exception" ELSE "True"

\* services.send_password_reset_otp_email: True when delay() queued the task,
\* False when delay() raised
send_password_reset_otp_email(raised) == IF raised THEN "False" ELSE "True"

NoResponse == [status |-> 0, body |-> ""]

SentResponse ==
    [status |-> 200, body |-> "Password reset OTP has been sent to your email."]

FailedResponse ==
    [status |-> 500, body |-> "Failed to send password reset OTP. Please try again later."]

\* ForgotPasswordRequestView.post: the response for the value (or exception)
\* request_password_reset_otp came back with
RequestResponse(result) == IF result = "True" THEN SentResponse ELSE FailedResponse

\* ----------------------------------------------------- model quiz grading
QuestionIds == {"q1", "q2"}                 \* the stored questions
Points == {0, 1}                            \* question_point values typed by teachers
QuizIds == {"z1", "z2"}                     \* the stored quizzes
Students == {"u1", "u2"}                    \* the accounts that use the quiz endpoints
GradedQuizzes == {"z1"}                     \* the quiz SpecQuiz submits to and edits
EditedQuestions == {"q1"}                   \* the question teachers update
RemovedQuestions == {"q2"}                  \* the question teachers delete
Answers ==                                  \* answers typed by students
    {[question_id |-> "q1", selected_option |-> "B"],
     [question_id |-> "q1", selected_option |-> "C"],
     [question_id |-> "q2", selected_option |-> "C"],
     [question_id |-> "q9", selected_option |-> "B"]}
SingleAnswers == {<<a>> : a \in Answers}
Submissions == {<<>>} \cup SingleAnswers \cup {<<a, b>> : a, b \in Answers}

\* rows of QuizQuestion after the teacher's set-up
InitialQuestions ==
    [q \in QuestionIds |->
        IF q = "q1" THEN [question_point |-> 1, correct_option |-> "B"]
        ELSE [question_point |-> 2, correct_option |-> "C"]]

\* rows of Quiz after the teacher's set-up; passing_score is the field default
InitialQuizzes ==
    [z \in QuizIds |->
        [questions |-> IF z = "z1" THEN {"q1", "q2"} ELSE {"q1"}, passing_score |-> 70]]

\* a function without the key x (DELETE of one row)
Without(f, x) == [y \in (DOMAIN f) \ {x} |-> f[y]]

\* the percentages 0, 1 / GradeScale, 2 / GradeScale, ... 100
Percentages == {[num |-> n, den |-> GradeScale] : n \in 0..(100 * GradeScale)}

\* a float percentage kept exactly, as the fraction num / den with den > 0
Percent(score, total_points) ==
    IF total_points > 0 THEN [num |-> score * 100, den |-> total_points]
    ELSE [num |-> 0, den |-> 1]

\* sum(q.question_point for q in <the questions qs>)
RECURSIVE total_points_of(_, _)
total_points_of(qtbl, qs) ==
    IF qs = {} THEN 0
    ELSE LET q == CHOOSE x \in qs : TRUE IN
         qtbl[q].question_point + total_points_of(qtbl, qs \ {q})

\* variant: the first breakpoint is tested with > instead of >=
calculate_grade_strict_top(pct) ==
    IF pct.num > 97 * pct.den THEN "A+"
    ELSE IF pct.num >= 93 * pct.den THEN "A"
    ELSE IF pct.num >= 90 * pct.den THEN "A-"
    ELSE IF pct.num >= 87 * pct.den THEN "B+"
    ELSE IF pct.num >= 83 * pct.den THEN "B"
    ELSE IF pct.num >= 80 * pct.den THEN "B-"
    ELSE IF pct.num >= 77 * pct.den THEN "C+"
    ELSE IF pct.num >= 73 * pct.den THEN "C"
    ELSE IF pct.num >= 70 * pct.den THEN "C-"
    ELSE IF pct.num >= 67 * pct.den THEN "D+"
    ELSE IF pct.num >= 63 * pct.den THEN "D"
    ELSE IF pct.num >= 60 * pct.den THEN "D-"
    ELSE "F"

\* StudentQuizAttempt.calculate_grade on progress_percentage = num / den
calculate_grade(pct) ==
    IF pct.num >= 97 * pct.den THEN "A+"
    ELSE IF pct.num >= 93 * pct.den THEN "A"
    ELSE IF pct.num >= 90 * pct.den THEN "A-"
    ELSE IF pct.num >= 87 * pct.den THEN "B+"
    ELSE IF pct.num >= 83 * pct.den THEN "B"
    ELSE IF pct.num >= 80 * pct.den THEN "B-"
    ELSE IF pct.num >= 77 * pct.den THEN "C+"
    ELSE IF pct.num >= 73 * pct.den THEN "C"
    ELSE IF pct.num >= 70 * pct.den THEN "C-"
    ELSE IF pct.num >= 67 * pct.den THEN "D+"
    ELSE IF pct.num >= 63 * pct.den THEN "D"
    ELSE IF pct.num >= 60 * pct.den THEN "D-"
    ELSE "F"

\* variant: save() without the override, the instance is stored as constructed
save_as_constructed(inst, qtbl, qztbl) == inst

\* StudentQuizAttempt.save: derive progress_percentage and grade, then store
save(inst, qtbl, qztbl) ==
    LET total_points == total_points_of(qtbl, qztbl[inst.quiz].questions)
        pct == Percent(inst.score, total_points) IN
    [inst EXCEPT !.progress_percentage = pct, !.grade = calculate_grade(pct)]

\* variant: validate without the test of the question ids
validate_quiz_only(qztbl, quiz_id, answers) ==
    /\ quiz_id \in DOMAIN qztbl
    /\ answers # <<>>

\* QuizSubmissionSerializer.validate_quiz_id, validate_answers and validate
validate(qztbl, quiz_id, answers) ==
    /\ quiz_id \in DOMAIN qztbl
    /\ answers # <<>>
    /\ LET submitted_question_ids == {answers[i].question_id : i \in 1..Len(answers)}
           invalid_ids == submitted_question_ids \ qztbl[quiz_id].questions
       IN  invalid_ids = {}

\* variant: every correct answer earns one point
score_of_one_each(qtbl, answers) ==
    Cardinality({i \in 1..Len(answers) :
                    /\ answers[i].question_id \in DOMAIN qtbl
                    /\ qtbl[answers[i].question_id].correct_option
                           = answers[i].selected_option})

\* QuizSubmissionSerializer.create: the score the loop over the answers adds up
RECURSIVE score_of(_, _)
score_of(qtbl, answers) ==
    IF answers = <<>> THEN 0
    ELSE LET answer == Head(answers) IN
         (IF answer.question_id \notin DOMAIN qtbl THEN 0
          ELSE IF qtbl[answer.question_id].correct_option = answer.selected_option
               THEN qtbl[answer.question_id].question_point
               ELSE 0)
         + score_of(qtbl, Tail(answers))

\* QuizSubmissionSerializer.create: the total_points the same loop adds up
RECURSIVE submitted_points_of(_, _)
submitted_points_of(qtbl, answers) ==
    IF answers = <<>> THEN 0
    ELSE LET answer == Head(answers) IN
         (IF answer.question_id \notin DOMAIN qtbl THEN 0
          ELSE qtbl[answer.question_id].question_point)
         + submitted_points_of(qtbl, Tail(answers))

\* the rows of seq at the positions of kept (what a cascading DELETE leaves)
RECURSIVE RowsAt(_, _)
RowsAt(seq, kept) ==
    IF seq = <<>> THEN <<>>
    ELSE LET n == Len(seq)
             front == RowsAt(SubSeq(seq, 1, n - 1), kept) IN
         IF n \in kept THEN Append(front, seq[n]) ELSE front

\* a nullable field of a response: None, or the value x
None == <<>>
Some(x) == <<x>>

\* filter(student=student, quiz=quiz): positions of the rows selected
AttemptsOf(atts, student, quiz_id) ==
    {i \in 1..Len(atts) : atts[i].student = student /\ atts[i].quiz = quiz_id}

\* the rows order_by('-attempted_at').first() can return among the rows idx
FirstByDate(atts, idx) ==
    {i \in idx : \A j \in idx : atts[j].attempted_at <= atts[i].attempted_at}

\* variant: best_attempt taken without re-ordering by score
FirstByScore_unordered(atts, idx) ==
    {i \in idx : \A j \in idx : atts[j].attempted_at <= atts[i].attempted_at}

\* the rows order_by('-score').first() can return among the rows idx
FirstByScore(atts, idx) ==
    {i \in idx : \A j \in idx : atts[j].score <= atts[i].score}

\* StudentQuizPerformanceView.get_queryset: the entry of one quiz, best and
\* latest being the rows first() returned (0 when the student has no attempt)
PerformanceEntry(atts, qtbl, qztbl, student, quiz_id, best, latest) ==
    LET total_attempts == Cardinality(AttemptsOf(atts, student, quiz_id))
        is_attempted == total_attempts > 0
    IN  [quiz_id |-> quiz_id,
         total_points |-> total_points_of(qtbl, qztbl[quiz_id].questions),
         passing_score |-> qztbl[quiz_id].passing_score,
         total_attempts |-> total_attempts,
         best_score |-> IF is_attempted THEN Some(atts[best].score) ELSE None,
         best_grade |-> IF is_attempted THEN Some(atts[best].grade) ELSE None,
         best_percentage |->
             IF is_attempted THEN Some(atts[best].progress_percentage) ELSE None,
         latest_score |-> IF is_attempted THEN Some(atts[latest].score) ELSE None,
         latest_grade |-> IF is_attempted THEN Some(atts[latest].grade) ELSE None,
         latest_percentage |->
             IF is_attempted THEN Some(atts[latest].progress_percentage) ELSE None,
         latest_attempt_date |->
             IF is_attempted THEN Some(atts[latest].attempted_at) ELSE None,
         has_passed |->
             IF is_attempted
             THEN atts[best].progress_percentage.num
                      >= qztbl[quiz_id].passing_score * atts[best].progress_percentage.den
             ELSE FALSE,
         is_attempted |-> is_attempted]

NoQuizCall ==
    [op |-> "none", student |-> "", quiz |-> "", answers |-> <<>>, status |-> 0,
     total_points |-> 0, pk |-> 0, summary |-> <<>>]

QuizReturned(op, student, quiz, answers, status, total_points, pk, summary) ==
    [op |-> op, student |-> student, quiz |-> quiz, answers |-> answers, status |-> status,
     total_points |-> total_points, pk |-> pk, summary |-> summary]

\* ------------------------------------------- model PasswordResetToken
ExpiryHours == {1, 24}          \* expiry_hours passed to create_token; 24 is its default

\* PasswordResetToken.mark_as_used: UPDATE ... SET is_used = TRUE WHERE pk = k
PasswordResetToken_mark_as_used(toks, k) == [toks EXCEPT ![k].is_used = TRUE]

\* variant: create_token without the invalidating update
create_token_keeping(toks, user, expiry_hours, t) ==
    Append(toks, [user |-> user, is_used |-> FALSE, created_at |-> t,
                  expires_at |-> t + 60 * expiry_hours])

\* PasswordResetToken.create_token: filter(user, is_used=False).update(is_used=True),
\* then create(); the random token string plays no part and is left out
create_token(toks, user, expiry_hours, t) ==
    Append([k \in 1..Len(toks) |->
               IF toks[k].user = user /\ ~toks[k].is_used
               THEN [toks[k] EXCEPT !.is_used = TRUE] ELSE toks[k]],
           [user |-> user, is_used |-> FALSE, created_at |-> t,
            expires_at |-> t + 60 * expiry_hours])

\* ------------------------------------------------ model users and profiles
Registrants == {"u3", "u4"}     \* the pks the next created users get, in this order
Addresses == {"ann@edu.io", "ann@Edu.io", "Ann@Edu.io"}  \* addresses typed at registration
StoredAddresses == {"ann@edu.io", "Ann@edu.io"}          \* what create_user can store of them
Roles == {"student", "teacher", "parent", "school_admin"}
ProfileRoles == {"student", "teacher", "parent"}
RegisteredRoles == {"student", "school_admin"}  \* roles typed at registration
UpdatedRoles == {"student", "teacher"}          \* roles typed in a profile update
ParentRoles == {"student", "parent"}            \* roles the dashboard callers switch between
RemovedAccounts == {"u2"}                       \* the account deleted beside the dashboard

\* BaseUserManager.normalize_email: email_name + "@" + domain_part.lower()
normalize_email(e) ==
    CASE e = "ann@Edu.io" -> "ann@edu.io"
      [] e = "Ann@Edu.io" -> "Ann@edu.io"
      [] e = "U1@Edu.io" -> "U1@edu.io"
      [] OTHER -> e

\* the pk of the next inserted User row
next_user(em) == IF "u3" \notin DOMAIN em THEN "u3" ELSE "u4"

\* pre_save _capture_email_verified_state: the stored flag, False without a pk
prev_is_email_verified(verified, user, has_pk) == IF has_pk THEN verified[user] ELSE FALSE

\* profile_model_map.get(instance.role)
profile_model(r) == IF r \in ProfileRoles THEN r ELSE "None"

\* profile_model.objects.get_or_create(user=instance)
get_or_create(profs, model, user) ==
    IF \E i \in 1..Len(profs) : profs[i].model = model /\ profs[i].user = user
    THEN profs
    ELSE Append(profs, [model |-> model, user |-> user])

\* variant: the post_save receiver without the just_verified test
create_profile_on_every_save(profs, user, r, verified, created, prev) ==
    IF ~verified THEN profs
    ELSE IF profile_model(r) = "None" THEN profs
    ELSE get_or_create(profs, profile_model(r), user)

\* post_save create_profile_when_email_verified, prev the flag captured by pre_save
create_profile_when_email_verified(profs, user, r, verified, created, prev) ==
    IF ~verified THEN profs
    ELSE IF ~(created \/ prev = FALSE) THEN profs
    ELSE IF profile_model(r) = "None" THEN profs
    ELSE get_or_create(profs, profile_model(r), user)

\* ------------------------------------------------- model ParentStudent
Relationships == {"guardian", "mother"}     \* relationship typed by the parent

\* variant: the existing link is looked up among the active rows only
LinksOf_active_only(lnks, parent, student) ==
    {i \in 1..Len(lnks) :
        lnks[i].parent = parent /\ lnks[i].student = student /\ lnks[i].is_active}

\* ParentStudent.objects.filter(parent, student).first(): the pks of the rows
LinksOf(lnks, parent, student) ==
    {i \in 1..Len(lnks) : lnks[i].parent = parent /\ lnks[i].student = student}

\* ParentStudent.objects.filter / get(parent, student_id, is_active=True): the pks
ActiveLinksOf(lnks, parent, student) ==
    {i \in LinksOf(lnks, parent, student) : lnks[i].is_active}

\* variant: the children list without the is_active filter
children_of_any_link(lnks, rl, caller) ==
    IF rl[caller] # "parent" THEN {}
    ELSE {lnks[i].student : i \in {j \in 1..Len(lnks) : lnks[j].parent = caller}}

\* MyChildrenListView.get_queryset: the student_id of every entry of the list
children_of(lnks, rl, caller) ==
    IF rl[caller] # "parent" THEN {}
    ELSE {lnks[i].student :
              i \in {j \in 1..Len(lnks) : lnks[j].parent = caller /\ lnks[j].is_active}}

NoViewCall == [op |-> "none", caller |-> "", target |-> "", status |-> 0, result |-> "",
               pk |-> 0, data |-> {}, expiry_hours |-> 0]

ViewReturned(op, caller, target, status, result, pk, data) ==
    [op |-> op, caller |-> caller, target |-> target, status |-> status, result |-> result,
     pk |-> pk, data |-> data, expiry_hours |-> 0]

\* ------------------------------------------------------------------ Init
Init ==
    /\ otp_tokens = <<>>
    /\ password = [u \in Users |-> "pw0"]
    /\ is_email_verified = [u \in Users |-> FALSE]
    /\ now = 0
    /\ last = NoCall
    /\ verified_at = [u \in Users |-> -1]
    /\ reset_since = [u \in Users |-> FALSE]
    /\ accepts = <<>>
    /\ pc = [p \in Procs |-> "idle"]
    /\ loc = [p \in Procs |-> NoLocals]
    /\ outbox = <<>>
    /\ dispatch = "none"
    /\ response = NoResponse
    /\ accounts = Users
    /\ questions = InitialQuestions
    /\ quizzes = InitialQuizzes
    /\ attempts = <<>>
    /\ attempt_seq = 0
    /\ quiz_last = NoQuizCall
    /\ percentage = Percent(0, 0)
    /\ grade = "None"
    /\ reset_tokens = <<>>
    /\ email = InitialEmails
    /\ role = [u \in Users |-> "student"]
    /\ profiles = <<>>
    /\ links = <<>>
    /\ view_last = NoViewCall

\* the same tables, and an unsaved StudentQuizAttempt whose progress_percentage
\* is any point of the grid
InitGrade ==
    /\ otp_tokens = <<>>
    /\ password = [u \in Users |-> "pw0"]
    /\ is_email_verified = [u \in Users |-> FALSE]
    /\ now = 0
    /\ last = NoCall
    /\ verified_at = [u \in Users |-> -1]
    /\ reset_since = [u \in Users |-> FALSE]
    /\ accepts = <<>>
    /\ pc = [p \in Procs |-> "idle"]
    /\ loc = [p \in Procs |-> NoLocals]
    /\ outbox = <<>>
    /\ dispatch = "none"
    /\ response = NoResponse
    /\ accounts = Users
    /\ questions = InitialQuestions
    /\ quizzes = InitialQuizzes
    /\ attempts = <<>>
    /\ attempt_seq = 0
    /\ quiz_last = NoQuizCall
    /\ percentage \in Percentages
    /\ grade = "None"
    /\ reset_tokens = <<>>
    /\ email = InitialEmails
    /\ role = [u \in Users |-> "student"]
    /\ profiles = <<>>
    /\ links = <<>>
    /\ view_last = NoViewCall

\* the clock advances between statements
Tick ==
    /\ now + TickStep <= MaxTime
    /\ now' = now + TickStep
    /\ UNCHANGED <<otp_tokens, password, is_email_verified, last, verified_at, reset_since,
                   accepts, pc, loc>>
    /\ UNCHANGED <<mail_vars, quiz_vars, grade_vars, account_vars>>

\* ------------------------------------------- handlers, run uninterrupted
\* services.generate_otp(user, purpose); code is what OTPToken.generate_otp draws
GenerateOtp(user, purpose, code) ==
    /\ Len(otp_tokens) < MaxTokens
    /\ otp_tokens' = create_otp(otp_tokens, user, purpose, code, now)
    /\ accepts' = Append(accepts, 0)
    /\ last' = Returned("generate_otp", user, code, purpose, FALSE, "token", Len(otp_tokens) + 1)
    /\ UNCHANGED <<password, is_email_verified, now, verified_at, reset_since, pc, loc>>
    /\ UNCHANGED <<mail_vars, quiz_vars, grade_vars, account_vars>>

\* services.verify_otp(user, otp, purpose, validate_only); verify_reset_otp(email, otp)
\* of an existing user is verify_otp(user, otp, PASSWORD_RESET, validate_only=False)
VerifyOtp(user, otp, purpose, validate_only) ==
    LET r == verify_otp_result(otp_tokens, user, otp, purpose, now) IN
    /\ otp_tokens' = verify_otp_tokens(otp_tokens, user, otp, purpose, validate_only, now)
    /\ last' = Returned("verify_otp", user, otp, purpose, validate_only, r[1], r[2])
    /\ verified_at' = VerifiedAt(verified_at, r, user, purpose, validate_only, now)
    /\ reset_since' = ResetSince(reset_since, r, user, purpose, validate_only)
    /\ accepts' = Accepted(accepts, r, validate_only)
    /\ UNCHANGED <<password, is_email_verified, now, pc, loc>>
    /\ UNCHANGED <<mail_vars, quiz_vars, grade_vars, account_vars>>

\* services.reset_password(email, new_password), email of an existing user;
\* on success set_password and user.save() with its pre_save and post_save receivers
ResetPassword(user, new_password) ==
    /\ IF recent_otp(otp_tokens, user, now)
       THEN /\ password' = [password EXCEPT ![user] = new_password]
            /\ otp_tokens' = InvalidateAllReset(otp_tokens, user)
            /\ last' = Returned("reset_password", user, "", PASSWORD_RESET, FALSE, "True", 0)
       ELSE /\ UNCHANGED <<password, otp_tokens>>
            /\ last' = Returned("reset_password", user, "", PASSWORD_RESET, FALSE, "False", 0)
    /\ reset_since' = [reset_since EXCEPT ![user] = TRUE]
    /\ profiles' = IF recent_otp(otp_tokens, user, now)
                   THEN create_profile_when_email_verified(
                            profiles, user, role[user], is_email_verified[user], FALSE,
                            prev_is_email_verified(is_email_verified, user, TRUE))
                   ELSE profiles
    /\ UNCHANGED <<is_email_verified, now, verified_at, accepts, pc, loc>>
    /\ UNCHANGED <<mail_vars, quiz_vars, grade_vars, reset_vars, email, role, link_vars>>

\* services.verify_email(user, otp): verify_otp, then on success
\* user.save(update_fields=["is_email_verified"]) with its pre_save and
\* post_save receivers
VerifyEmail(user, otp) ==
    LET r == verify_otp_result(otp_tokens, user, otp, EMAIL_VERIFICATION, now) IN
    /\ otp_tokens' = verify_otp_tokens(otp_tokens, user, otp, EMAIL_VERIFICATION, FALSE, now)
    /\ is_email_verified' = IF r[1] = "True"
                            THEN [is_email_verified EXCEPT ![user] = TRUE]
                            ELSE is_email_verified
    /\ last' = Returned("verify_email", user, otp, EMAIL_VERIFICATION, FALSE, r[1], r[2])
    /\ accepts' = Accepted(accepts, r, FALSE)
    /\ profiles' = IF r[1] = "True"
                   THEN create_profile_when_email_verified(
                            profiles, user, role[user], TRUE, FALSE,
                            prev_is_email_verified(is_email_verified, user, TRUE))
                   ELSE profiles
    /\ UNCHANGED <<password, now, verified_at, reset_since, pc, loc>>
    /\ UNCHANGED <<mail_vars, quiz_vars, grade_vars, reset_vars, email, role, link_vars>>

Next ==
    \/ Tick
    \/ \E u \in Actors, p \in IssuedPurposes, c \in Codes : GenerateOtp(u, p, c)
    \/ \E u \in Actors, c \in Codes, p \in IssuedPurposes, vo \in BOOLEAN : VerifyOtp(u, c, p, vo)
    \/ \E u \in Actors, pw \in Passwords : ResetPassword(u, pw)
    \/ \E u \in Actors, c \in Codes : VerifyEmail(u, c)

Spec == Init /\ [][Next]_vars

\* --------------------------- the same calls, one ORM statement per step
InFlightCreates == Cardinality({w \in Procs : pc[w] = "create_insert"})

Return(w, result, pk) ==
    /\ last' = Returned(loc[w].op, loc[w].user, loc[w].otp, loc[w].purpose,
                        loc[w].validate_only, result, pk)
    /\ pc' = [pc EXCEPT ![w] = "idle"]
    /\ loc' = [loc EXCEPT ![w] = NoLocals]

\* create_otp, statement 1: invalidate the unused tokens of (user, purpose)
CreateOtpInvalidate(w, user, purpose) ==
    /\ pc[w] = "idle"
    /\ Len(otp_tokens) + InFlightCreates < MaxTokens
    /\ otp_tokens' = InvalidateUnused(otp_tokens, user, purpose)
    /\ pc' = [pc EXCEPT ![w] = "create_insert"]
    /\ loc' = [loc EXCEPT ![w] = Locals("generate_otp", user, "", purpose, FALSE, 0)]
    /\ UNCHANGED <<password, is_email_verified, now, last, verified_at, reset_since, accepts>>
    /\ UNCHANGED <<mail_vars, quiz_vars, grade_vars, account_vars>>

\* create_otp, statement 2: insert the new token and return it
CreateOtpInsert(w, code) ==
    /\ pc[w] = "create_insert"
    /\ otp_tokens' = InsertToken(otp_tokens, loc[w].user, loc[w].purpose, code, now)
    /\ accepts' = Append(accepts, 0)
    /\ last' = Returned("generate_otp", loc[w].user, code, loc[w].purpose, FALSE,
                        "token", Len(otp_tokens) + 1)
    /\ pc' = [pc EXCEPT ![w] = "idle"]
    /\ loc' = [loc EXCEPT ![w] = NoLocals]
    /\ UNCHANGED <<password, is_email_verified, now, verified_at, reset_since>>
    /\ UNCHANGED <<mail_vars, quiz_vars, grade_vars, account_vars>>

\* verify_otp, statement 1: OTPToken.objects.get(...)
VerifyOtpGet(w, user, otp, purpose, validate_only) ==
    LET found == Lookup(otp_tokens, user, otp, purpose) IN
    /\ pc[w] = "idle"
    /\ IF Cardinality(found) = 1
       THEN /\ pc' = [pc EXCEPT ![w] = "verify_check"]
            /\ loc' = [loc EXCEPT ![w] = Locals("verify_otp", user, otp, purpose, validate_only,
                                                CHOOSE k \in found : TRUE)]
            /\ UNCHANGED last
       ELSE /\ last' = Returned("verify_otp", user, otp, purpose, validate_only,
                                IF found = {} THEN "False" ELSE "MultipleObjectsReturned", 0)
            /\ UNCHANGED <<pc, loc>>
    /\ UNCHANGED <<otp_tokens, password, is_email_verified, now, verified_at, reset_since,
                   accepts>>
    /\ UNCHANGED <<mail_vars, quiz_vars, grade_vars, account_vars>>

\* verify_otp, statements 2-3: is_valid on the fetched instance (whose is_used
\* is the False the lookup read), then mark_as_used and return
VerifyOtpCheck(w) ==
    LET k == loc[w].pk
        ok == ~is_expired(otp_tokens[k], now)
        r == <<IF ok THEN "True" ELSE "False", k>> IN
    /\ pc[w] = "verify_check"
    /\ otp_tokens' = IF ok /\ ~loc[w].validate_only THEN mark_as_used(otp_tokens, k)
                     ELSE otp_tokens
    /\ verified_at' = VerifiedAt(verified_at, r, loc[w].user, loc[w].purpose,
                                 loc[w].validate_only, now)
    /\ reset_since' = ResetSince(reset_since, r, loc[w].user, loc[w].purpose,
                                 loc[w].validate_only)
    /\ accepts' = Accepted(accepts, r, loc[w].validate_only)
    /\ Return(w, r[1], k)
    /\ UNCHANGED <<password, is_email_verified, now>>
    /\ UNCHANGED <<mail_vars, quiz_vars, grade_vars, account_vars>>

NextConc ==
    \/ Tick
    \/ \E w \in Procs, u \in Actors, p \in IssuedPurposes : CreateOtpInvalidate(w, u, p)
    \/ \E w \in Procs, c \in Codes : CreateOtpInsert(w, c)
    \/ \E w \in Procs, u \in Actors, c \in Codes, p \in IssuedPurposes, vo \in BOOLEAN :
           VerifyOtpGet(w, u, c, p, vo)
    \/ \E w \in Procs : VerifyOtpCheck(w)

SpecConc == Init /\ [][NextConc]_vars

\* ----------------------------------------- the forgot-password endpoints
\* ForgotPasswordRequestView.post(email) -> services.request_password_reset_otp;
\* code is what OTPToken.generate_otp draws, raised whether delay() raises
ForgotPasswordRequest(e, code, raised) ==
    LET user == get_user_by_email(accounts, e)
        sent == send_password_reset_otp_email(raised) IN
    /\ IF user = "None"
       THEN /\ last' = Returned("request_password_reset_otp", "", "", PASSWORD_RESET, FALSE,
                                "False", 0)
            /\ response' = RequestResponse("False")
            /\ dispatch' = "none"
            /\ UNCHANGED <<otp_tokens, accepts, outbox>>
       ELSE /\ Len(otp_tokens) < MaxTokens
            /\ otp_tokens' = create_otp(otp_tokens, user, PASSWORD_RESET, code, now)
            /\ accepts' = Append(accepts, 0)
            /\ dispatch' = IF raised THEN "raised" ELSE "queued"
            /\ outbox' = IF raised THEN outbox
                         ELSE Append(outbox, [user_email |-> email[user], otp |-> code])
            /\ last' = Returned("request_password_reset_otp", user, code, PASSWORD_RESET,
                                FALSE, sent, Len(otp_tokens) + 1)
            /\ response' = RequestResponse(sent)
    /\ UNCHANGED <<password, is_email_verified, now, verified_at, reset_since, pc, loc>>
    /\ UNCHANGED <<quiz_vars, grade_vars, account_vars>>

NextRequest ==
    \/ Tick
    \/ \E e \in Emails, c \in Codes, raised \in BOOLEAN : ForgotPasswordRequest(e, c, raised)
    \/ \E u \in Actors, c \in Codes : VerifyOtp(u, c, PASSWORD_RESET, FALSE)
    \/ \E u \in Actors, pw \in Passwords : ResetPassword(u, pw)

SpecRequest == Init /\ [][NextRequest]_vars

\* --------------------------------------------------- the quiz endpoints
\* QuizSubmitView.post by the logged-in student: is_valid, create, save
QuizSubmit(student, quiz_id, answers) ==
    /\ student \in accounts
    /\ IF validate(quizzes, quiz_id, answers)
       THEN LET inst == [pk |-> attempt_seq + 1, student |-> student, quiz |-> quiz_id,
                         score |-> score_of(questions, answers),
                         progress_percentage |-> Percent(0, 0), grade |-> "None",
                         attempted_at |-> now] IN
            /\ attempt_seq < MaxAttempts
            /\ attempts' = Append(attempts, save(inst, questions, quizzes))
            /\ attempt_seq' = attempt_seq + 1
            /\ quiz_last' = QuizReturned("submit", student, quiz_id, answers, 201,
                                         submitted_points_of(questions, answers),
                                         attempt_seq + 1, <<>>)
       ELSE /\ quiz_last' = QuizReturned("submit", student, quiz_id, answers, 400, 0, 0, <<>>)
            /\ UNCHANGED <<attempts, attempt_seq>>
    /\ UNCHANGED <<accounts, questions, quizzes>>
    /\ UNCHANGED <<otp_tokens, password, is_email_verified, now, last, verified_at,
                   reset_since, accepts, pc, loc, mail_vars, grade_vars, account_vars>>

\* QuizUpdateView.update -> QuizUpdateSerializer.update: questions.set(qs)
QuizUpdate(quiz_id, qs) ==
    /\ quiz_id \in DOMAIN quizzes
    /\ qs \subseteq DOMAIN questions
    /\ quizzes' = [quizzes EXCEPT ![quiz_id].questions = qs]
    /\ quiz_last' = QuizReturned("quiz_update", "", quiz_id, <<>>, 200, 0, 0, <<>>)
    /\ UNCHANGED <<accounts, questions, attempts, attempt_seq>>
    /\ UNCHANGED <<otp_tokens, password, is_email_verified, now, last, verified_at,
                   reset_since, accepts, pc, loc, mail_vars, grade_vars, account_vars>>

\* QuizDeleteView.delete: the quiz row goes, and with it (on_delete=CASCADE)
\* every StudentQuizAttempt whose quiz it is
QuizDelete(quiz_id) ==
    /\ quiz_id \in DOMAIN quizzes
    /\ quizzes' = Without(quizzes, quiz_id)
    /\ attempts' = RowsAt(attempts, {i \in 1..Len(attempts) : attempts[i].quiz # quiz_id})
    /\ quiz_last' = QuizReturned("quiz_delete", "", quiz_id, <<>>, 204, 0, 0, <<>>)
    /\ UNCHANGED <<accounts, questions, attempt_seq>>
    /\ UNCHANGED <<otp_tokens, password, is_email_verified, now, last, verified_at,
                   reset_since, accepts, pc, loc, mail_vars, grade_vars, account_vars>>

\* QuizQuestionDetailView.put / patch with a new question_point
QuestionUpdate(question_id, point) ==
    /\ question_id \in DOMAIN questions
    /\ questions' = [questions EXCEPT ![question_id].question_point = point]
    /\ quiz_last' = QuizReturned("question_update", "", "", <<>>, 200, 0, 0, <<>>)
    /\ UNCHANGED <<accounts, quizzes, attempts, attempt_seq>>
    /\ UNCHANGED <<otp_tokens, password, is_email_verified, now, last, verified_at,
                   reset_since, accepts, pc, loc, mail_vars, grade_vars, account_vars>>

\* QuizQuestionDetailView.delete: the question row goes, and with it its rows
\* in the questions relation of every quiz
QuestionDelete(question_id) ==
    /\ question_id \in DOMAIN questions
    /\ questions' = Without(questions, question_id)
    /\ quizzes' = [z \in DOMAIN quizzes |->
                      [quizzes[z] EXCEPT !.questions = @ \ {question_id}]]
    /\ quiz_last' = QuizReturned("question_delete", "", "", <<>>, 204, 0, 0, <<>>)
    /\ UNCHANGED <<accounts, attempts, attempt_seq>>
    /\ UNCHANGED <<otp_tokens, password, is_email_verified, now, last, verified_at,
                   reset_since, accepts, pc, loc, mail_vars, grade_vars, account_vars>>

\* ProfileDeleteView.delete by the logged-in user: the account row goes, and
\* with it (on_delete=CASCADE) the user's OTPToken, PasswordResetToken,
\* StudentQuizAttempt, profile and ParentStudent rows
AccountDelete(user) ==
    LET kept == {k \in PKs(otp_tokens) : otp_tokens[k].user # user} IN
    /\ user \in accounts
    /\ accounts' = accounts \ {user}
    /\ otp_tokens' = RowsAt(otp_tokens, kept)
    /\ accepts' = RowsAt(accepts, kept)
    /\ attempts' = RowsAt(attempts, {i \in 1..Len(attempts) : attempts[i].student # user})
    /\ quiz_last' = QuizReturned("account_delete", user, "", <<>>, 204, 0, 0, <<>>)
    /\ UNCHANGED <<questions, quizzes, attempt_seq>>
    /\ reset_tokens' = RowsAt(reset_tokens, {k \in 1..Len(reset_tokens) :
                                                 reset_tokens[k].user # user})
    /\ profiles' = RowsAt(profiles, {k \in 1..Len(profiles) : profiles[k].user # user})
    /\ links' = RowsAt(links, {k \in 1..Len(links) :
                                   links[k].parent # user /\ links[k].student # user})
    /\ UNCHANGED <<password, is_email_verified, now, last, verified_at, reset_since, pc, loc,
                   mail_vars, grade_vars, email, role, view_last>>

NextQuiz ==
    \/ \E s \in Actors, z \in GradedQuizzes, a \in Submissions : QuizSubmit(s, z, a)
    \/ \E z \in GradedQuizzes, qs \in SUBSET QuestionIds : QuizUpdate(z, qs)
    \/ \E z \in GradedQuizzes : QuizDelete(z)
    \/ \E q \in EditedQuestions, pt \in Points : QuestionUpdate(q, pt)
    \/ \E q \in RemovedQuestions : QuestionDelete(q)
    \/ \E u \in Actors : AccountDelete(u)

SpecQuiz == Init /\ [][NextQuiz]_vars

\* StudentQuizPerformanceView.list by the logged-in student; where several
\* rows tie for first(), the database returns any one of them
Performance(student) ==
    /\ student \in accounts
    /\ \E best, latest \in [DOMAIN quizzes -> 0..Len(attempts)] :
           /\ \A z \in DOMAIN quizzes :
                  LET idx == AttemptsOf(attempts, student, z) IN
                  IF idx = {} THEN best[z] = 0 /\ latest[z] = 0
                  ELSE /\ best[z] \in FirstByScore(attempts, idx)
                       /\ latest[z] \in FirstByDate(attempts, idx)
           /\ quiz_last' =
                  QuizReturned("performance", student, "", <<>>, 200, 0, 0,
                               [z \in DOMAIN quizzes |->
                                   PerformanceEntry(attempts, questions, quizzes, student, z,
                                                    best[z], latest[z])])
    /\ UNCHANGED <<accounts, questions, quizzes, attempts, attempt_seq>>
    /\ UNCHANGED <<otp_tokens, password, is_email_verified, now, last, verified_at,
                   reset_since, accepts, pc, loc, mail_vars, grade_vars, account_vars>>

NextPerformance ==
    \/ Tick
    \/ \E s \in Students, z \in QuizIds, a \in SingleAnswers : QuizSubmit(s, z, a)
    \/ \E s \in Students : Performance(s)

SpecPerformance == Init /\ [][NextPerformance]_vars

\* ------------------------------------------------ calculate_grade alone
\* self.grade = self.calculate_grade()
CalculateGrade ==
    /\ grade = "None"
    /\ grade' = calculate_grade(percentage)
    /\ UNCHANGED <<otp_tokens, password, is_email_verified, now, last, verified_at,
                   reset_since, accepts, pc, loc, mail_vars, quiz_vars, percentage, account_vars>>

\* the percentage moves to the next point of the grid and is graded again
RaisePercentage ==
    /\ grade # "None"
    /\ percentage.num < 100 * percentage.den
    /\ percentage' = [percentage EXCEPT !.num = @ + 1]
    /\ grade' = calculate_grade(percentage')
    /\ UNCHANGED <<otp_tokens, password, is_email_verified, now, last, verified_at,
                   reset_since, accepts, pc, loc, mail_vars, quiz_vars, account_vars>>

NextGrade ==
    \/ CalculateGrade
    \/ RaisePercentage

SpecGrade == InitGrade /\ [][NextGrade]_vars

\* ------------------------- the OTP calls of two users and two purposes
NextIsolation ==
    \/ \E u \in Users, p \in IssuedPurposes, c \in Codes : GenerateOtp(u, p, c)
    \/ \E u \in Users, c \in Codes, p \in IssuedPurposes : VerifyOtp(u, c, p, FALSE)
    \/ \E u \in Users : ResetPassword(u, "pw1")

SpecIsolation == Init /\ [][NextIsolation]_vars

\* ------------------------------------------- PasswordResetToken calls
\* PasswordResetToken.create_token(user, expiry_hours)
CreateToken(user, expiry_hours) ==
    /\ user \in accounts
    /\ Len(reset_tokens) < MaxResetTokens
    /\ reset_tokens' = create_token(reset_tokens, user, expiry_hours, now)
    /\ view_last' = [ViewReturned("create_token", user, "", 0, "token",
                                  Len(reset_tokens) + 1, {})
                         EXCEPT !.expiry_hours = expiry_hours]
    /\ UNCHANGED <<otp_tokens, password, is_email_verified, now, last, verified_at,
                   reset_since, accepts, pc, loc, mail_vars, quiz_vars, grade_vars,
                   user_vars, links>>

\* PasswordResetToken.mark_as_used() on the stored row k
MarkTokenUsed(k) ==
    /\ k \in 1..Len(reset_tokens)
    /\ reset_tokens' = PasswordResetToken_mark_as_used(reset_tokens, k)
    /\ view_last' = ViewReturned("mark_as_used", reset_tokens[k].user, "", 0, "None", k, {})
    /\ UNCHANGED <<otp_tokens, password, is_email_verified, now, last, verified_at,
                   reset_since, accepts, pc, loc, mail_vars, quiz_vars, grade_vars,
                   user_vars, links>>

NextToken ==
    \/ Tick
    \/ \E u \in Users, h \in ExpiryHours : CreateToken(u, h)
    \/ \E k \in 1..MaxResetTokens : MarkTokenUsed(k)
    \/ \E u \in Actors \cap accounts : GenerateOtp(u, PASSWORD_RESET, "1111")
    \/ \E u \in Users : AccountDelete(u)

SpecToken == Init /\ [][NextToken]_vars

\* ------------------------------------- registration and profile update
\* User.objects.create_user(email, password, role=..., is_email_verified=...):
\* normalize_email, save() with its pre_save and post_save receivers; the
\* unique email column refuses a second row with the same stored address
CreateUser(e, pw, r, verified) ==
    LET u == next_user(email)
        stored == normalize_email(e) IN
    /\ Registrants \ DOMAIN email # {}
    /\ IF \E a \in accounts : email[a] = stored
       THEN /\ view_last' = ViewReturned("create_user", "", e, 0, "IntegrityError", 0, {})
            /\ UNCHANGED <<accounts, email, role, profiles, password, is_email_verified,
                           verified_at, reset_since>>
       ELSE /\ accounts' = accounts \cup {u}
            /\ email' = (u :> stored) @@ email
            /\ role' = (u :> r) @@ role
            /\ password' = (u :> pw) @@ password
            /\ is_email_verified' = (u :> verified) @@ is_email_verified
            /\ verified_at' = (u :> -1) @@ verified_at
            /\ reset_since' = (u :> FALSE) @@ reset_since
            /\ profiles' = create_profile_when_email_verified(
                               profiles, u, r, verified, TRUE,
                               prev_is_email_verified(is_email_verified, u, FALSE))
            /\ view_last' = ViewReturned("create_user", u, e, 0, "user", 0, {})
    /\ UNCHANGED <<otp_tokens, now, last, accepts, pc, loc, mail_vars, questions, quizzes,
                   attempts, attempt_seq, quiz_last, grade_vars, reset_vars, links>>

\* RegisterView.post: is_valid (the unique validator compares the typed
\* address), UserRegistrationSerializer.create -> create_user, any exception
\* answered 400; then send_verification_email -> generate_otp. The mail task
\* it queues changes the message of the response only and is left out.
Register(e, pw, r, code) ==
    LET u == next_user(email)
        stored == normalize_email(e) IN
    /\ Registrants \ DOMAIN email # {}
    /\ IF \E a \in accounts : email[a] = e \/ email[a] = stored
       THEN /\ view_last' = ViewReturned("register", "", e, 400, "error", 0, {})
            /\ UNCHANGED <<accounts, email, role, profiles, password, is_email_verified,
                           verified_at, reset_since, otp_tokens, accepts, last>>
       ELSE /\ Len(otp_tokens) < MaxTokens
            /\ accounts' = accounts \cup {u}
            /\ email' = (u :> stored) @@ email
            /\ role' = (u :> r) @@ role
            /\ password' = (u :> pw) @@ password
            /\ is_email_verified' = (u :> FALSE) @@ is_email_verified
            /\ verified_at' = (u :> -1) @@ verified_at
            /\ reset_since' = (u :> FALSE) @@ reset_since
            /\ profiles' = create_profile_when_email_verified(
                               profiles, u, r, FALSE, TRUE,
                               prev_is_email_verified(is_email_verified, u, FALSE))
            /\ otp_tokens' = create_otp(otp_tokens, u, EMAIL_VERIFICATION, code, now)
            /\ accepts' = Append(accepts, 0)
            /\ last' = Returned("generate_otp", u, code, EMAIL_VERIFICATION, FALSE, "token",
                                Len(otp_tokens) + 1)
            /\ view_last' = ViewReturned("register", u, e, 201, "user", 0, {})
    /\ UNCHANGED <<now, pc, loc, mail_vars, questions, quizzes, attempts, attempt_seq,
                   quiz_last, grade_vars, reset_vars, links>>

\* services.get_user_by_email(email)
GetUserByEmail(e) ==
    /\ view_last' = ViewReturned("get_user_by_email", "", e, 0,
                                 get_user_by_email(accounts, e), 0, {})
    /\ UNCHANGED <<otp_tokens, password, is_email_verified, now, last, verified_at,
                   reset_since, accepts, pc, loc, mail_vars, quiz_vars, grade_vars,
                   reset_vars, user_vars, links>>

\* ProfileUpdateView.update / partial_update with a new role: serializer.save()
\* -> user.save() with its pre_save and post_save receivers
ProfileUpdate(user, r) ==
    /\ user \in accounts
    /\ role' = [role EXCEPT ![user] = r]
    /\ profiles' = create_profile_when_email_verified(
                       profiles, user, r, is_email_verified[user], FALSE,
                       prev_is_email_verified(is_email_verified, user, TRUE))
    /\ view_last' = ViewReturned("profile_update", user, "", 200, r, 0, {})
    /\ UNCHANGED <<otp_tokens, password, is_email_verified, now, last, verified_at,
                   reset_since, accepts, pc, loc, mail_vars, quiz_vars, grade_vars,
                   reset_vars, email, links>>

NextProfile ==
    \/ \E e \in Addresses, r \in RegisteredRoles : Register(e, "pw1", r, "1111")
    \/ \E e \in Addresses, r \in RegisteredRoles, v \in BOOLEAN : CreateUser(e, "pw1", r, v)
    \/ \E e \in Addresses : GetUserByEmail(e)
    \/ \E u \in accounts \cap Registrants : GenerateOtp(u, EMAIL_VERIFICATION, "2222")
    \/ \E u \in accounts \cap Registrants, c \in Codes : VerifyEmail(u, c)
    \/ \E u \in accounts \cap Registrants, r \in UpdatedRoles : ProfileUpdate(u, r)

SpecProfile == Init /\ [][NextProfile]_vars

\* ------------------------------------------ the parent dashboard endpoints
\* LinkStudentView.post by the logged-in caller
LinkStudent(caller, student, relationship) ==
    /\ caller \in accounts
    /\ IF role[caller] # "parent"
       THEN /\ view_last' = ViewReturned("link", caller, student, 403, "forbidden", 0, {})
            /\ UNCHANGED links
       ELSE IF student \notin accounts \/ role[student] # "student"
       THEN /\ view_last' = ViewReturned("link", caller, student, 400, "no_student", 0, {})
            /\ UNCHANGED links
       ELSE IF LinksOf(links, caller, student) # {}
       THEN \E k \in LinksOf(links, caller, student) :
                IF links[k].is_active
                THEN /\ view_last' = ViewReturned("link", caller, student, 400,
                                                  "already_linked", k, {})
                     /\ UNCHANGED links
                ELSE /\ links' = [links EXCEPT ![k].is_active = TRUE,
                                               ![k].relationship = relationship]
                     /\ view_last' = ViewReturned("link", caller, student, 200,
                                                  "reactivated", k, {})
       ELSE /\ Len(links) < MaxLinks
            /\ links' = Append(links, [parent |-> caller, student |-> student,
                                       relationship |-> relationship, is_active |-> TRUE])
            /\ view_last' = ViewReturned("link", caller, student, 201, "linked",
                                         Len(links) + 1, {})
    /\ UNCHANGED <<otp_tokens, password, is_email_verified, now, last, verified_at,
                   reset_since, accepts, pc, loc, mail_vars, quiz_vars, grade_vars,
                   reset_vars, user_vars>>

\* UnlinkStudentView.delete by the logged-in caller; get() raises
\* MultipleObjectsReturned (answered 500) when several active rows match
UnlinkStudent(caller, student) ==
    /\ caller \in accounts
    /\ IF role[caller] # "parent"
       THEN /\ view_last' = ViewReturned("unlink", caller, student, 403, "forbidden", 0, {})
            /\ UNCHANGED links
       ELSE IF ActiveLinksOf(links, caller, student) = {}
       THEN /\ view_last' = ViewReturned("unlink", caller, student, 404, "not_found", 0, {})
            /\ UNCHANGED links
       ELSE IF Cardinality(ActiveLinksOf(links, caller, student)) > 1
       THEN /\ view_last' = ViewReturned("unlink", caller, student, 500, "multiple", 0, {})
            /\ UNCHANGED links
       ELSE LET k == CHOOSE i \in ActiveLinksOf(links, caller, student) : TRUE IN
            /\ links' = [links EXCEPT ![k].is_active = FALSE]
            /\ view_last' = ViewReturned("unlink", caller, student, 200, "unlinked", k, {})
    /\ UNCHANGED <<otp_tokens, password, is_email_verified, now, last, verified_at,
                   reset_since, accepts, pc, loc, mail_vars, quiz_vars, grade_vars,
                   reset_vars, user_vars>>

\* ChildProgressView.get by the logged-in caller; data is the student whose
\* progress the response carries
ChildProgress(caller, student) ==
    /\ caller \in accounts
    /\ view_last' =
           IF role[caller] # "parent"
           THEN ViewReturned("child_progress", caller, student, 403, "forbidden", 0, {})
           ELSE IF ActiveLinksOf(links, caller, student) = {}
           THEN ViewReturned("child_progress", caller, student, 404, "not_found", 0, {})
           ELSE IF Cardinality(ActiveLinksOf(links, caller, student)) > 1
           THEN ViewReturned("child_progress", caller, student, 500, "multiple", 0, {})
           ELSE ViewReturned("child_progress", caller, student, 200, "progress", 0, {student})
    /\ UNCHANGED <<otp_tokens, password, is_email_verified, now, last, verified_at,
                   reset_since, accepts, pc, loc, mail_vars, quiz_vars, grade_vars,
                   reset_vars, user_vars, links>>

\* MyChildrenListView.list by the logged-in caller; data is the students listed
MyChildren(caller) ==
    /\ caller \in accounts
    /\ view_last' = ViewReturned("my_children", caller, "", 200, "list", 0,
                                 children_of(links, role, caller))
    /\ UNCHANGED <<otp_tokens, password, is_email_verified, now, last, verified_at,
                   reset_since, accepts, pc, loc, mail_vars, quiz_vars, grade_vars,
                   reset_vars, user_vars, links>>

NextParent ==
    \/ \E u \in Users, r \in ParentRoles : ProfileUpdate(u, r)
    \/ \E p \in Users, s \in Users, rel \in Relationships : LinkStudent(p, s, rel)
    \/ \E p \in Users, s \in Users : UnlinkStudent(p, s)
    \/ \E p \in Users, s \in Users : ChildProgress(p, s)
    \/ \E p \in Users : MyChildren(p)
    \/ \E u \in RemovedAccounts : AccountDelete(u)

SpecParent == Init /\ [][NextParent]_vars

\* ========================================================== properties
\* vocabulary of the properties, stated on the stored fields
UnusedIn(toks, u, p) ==
    {k \in 1..Len(toks) : toks[k].user = u /\ toks[k].purpose = p /\ ~toks[k].is_used}

ActiveIn(toks, u, p, t) == {k \in UnusedIn(toks, u, p) : t <= toks[k].expires_at}

Matches(tok, u, c, p) == tok.user = u /\ tok.token = c /\ tok.purpose = p

VerifyOps == {"verify_otp", "verify_email"}

\* In Spec every step except Tick is one whole call, and last' is that call.
CallReturns(ops) == now' = now /\ last'.op \in ops

\* In SpecQuiz and SpecPerformance every step except Tick is one whole call of
\* a quiz endpoint, and quiz_last' is that call.
QuizCallReturns(ops) == now' = now /\ quiz_last'.op \in ops

Accepted201 == QuizCallReturns({"submit"}) /\ quiz_last'.status = 201

\* A step that records a new call of the account or parent-dashboard operations.
ViewCallReturns(ops) == view_last' # view_last /\ view_last'.op \in ops

\* The PasswordResetToken rows of user u that are not marked used.
UnusedResetOf(toks, u) == {k \in 1..Len(toks) : toks[k].user = u /\ ~toks[k].is_used}

RECURSIVE SumUpTo(_, _)
SumUpTo(f, n) == IF n = 0 THEN 0 ELSE f[n] + SumUpTo(f, n - 1)

\* the points the answers earn: question_point for a correct answer, 0 otherwise
Earned(qtbl, answers) ==
    SumUpTo([i \in 1..Len(answers) |->
                IF qtbl[answers[i].question_id].correct_option = answers[i].selected_option
                THEN qtbl[answers[i].question_id].question_point
                ELSE 0],
            Len(answers))

\* the points of the questions qs
RECURSIVE PointsSum(_, _)
PointsSum(qtbl, qs) ==
    IF qs = {} THEN 0
    ELSE LET q == CHOOSE x \in qs : TRUE IN qtbl[q].question_point + PointsSum(qtbl, qs \ {q})

\* the breakpoint table, highest breakpoint first
Breakpoints ==
    <<[at |-> 97, grade |-> "A+"], [at |-> 93, grade |-> "A"], [at |-> 90, grade |-> "A-"],
      [at |-> 87, grade |-> "B+"], [at |-> 83, grade |-> "B"], [at |-> 80, grade |-> "B-"],
      [at |-> 77, grade |-> "C+"], [at |-> 73, grade |-> "C"], [at |-> 70, grade |-> "C-"],
      [at |-> 67, grade |-> "D+"], [at |-> 63, grade |-> "D"], [at |-> 60, grade |-> "D-"]>>

\* the breakpoints the percentage pct reaches
Reached(pct) == {i \in 1..Len(Breakpoints) : pct.num >= Breakpoints[i].at * pct.den}

\* the grade of the table for pct: that of the highest breakpoint reached
GradeOf(pct) ==
    IF Reached(pct) = {} THEN "F"
    ELSE Breakpoints[CHOOSE i \in Reached(pct) : \A j \in Reached(pct) : i <= j].grade

GradeNames == {Breakpoints[i].grade : i \in 1..Len(Breakpoints)} \cup {"F"}

\* position of a grade on the scale, F lowest
Rank(g) ==
    IF g = "F" THEN 0
    ELSE Len(Breakpoints) + 1 - (CHOOSE i \in 1..Len(Breakpoints) : Breakpoints[i].grade = g)

\* C1: with calls run one after another there is at most one unused OTPToken
\* per (user, purpose); right after an issue the only unused token of that
\* (user, purpose) is the one just issued, every earlier one being used.
C1_AtMostOneUnused ==
    /\ \A u \in Users, p \in OTPPurpose : Cardinality(UnusedIn(otp_tokens, u, p)) <= 1
    /\ last.op = "generate_otp" =>
           /\ last.pk = Len(otp_tokens)
           /\ UnusedIn(otp_tokens, last.user, last.purpose) = {last.pk}

C1_Witness ==
    /\ last.op = "generate_otp"
    /\ last.pk = 2
    /\ Matches(otp_tokens[1], last.user, otp_tokens[1].token, last.purpose)
    /\ otp_tokens[1].is_used
    /\ accepts[1] = 0
    /\ password[last.user] = "pw0"
    /\ ~otp_tokens[2].is_used

\* C2: with two issue calls interleaved statement by statement, no state has
\* two unused, unexpired tokens for one (user, purpose).
C2_NoTwoActive ==
    \A u \in Users, p \in OTPPurpose : Cardinality(ActiveIn(otp_tokens, u, p, now)) <= 1

\* C3: reset_password returns True (and changes the password) only if a
\* password-reset OTP of that user was consumed by a successful verification
\* before.
C3_ResetOnlyAfterVerify ==
    (last.op = "reset_password" /\ last.result = "True") => verified_at[last.user] # -1

\* C4: for every token, at most one consuming verify_otp call ever returns
\* True, also when two such calls interleave between lookup and mark_as_used.
C4_ConsumedOnce ==
    \A k \in 1..Len(accepts) : accepts[k] <= 1

\* C5: a consuming verify_otp on an unused, unexpired token returns True and
\* marks it used; the next verify_otp with the same (user, code, purpose)
\* returns False; a verify whose code matches no unused token of the
\* (user, purpose) returns False.
C5_Step ==
    CallReturns(VerifyOps) =>
        LET u == last'.user
            c == last'.otp
            p == last'.purpose
            hit == {k \in UnusedIn(otp_tokens, u, p) : otp_tokens[k].token = c}
        IN  /\ \A k \in hit :
                   (now <= otp_tokens[k].expires_at /\ ~last'.validate_only)
                   => /\ last'.result = "True"
                      /\ last'.pk = k
                      /\ otp_tokens'[k].is_used
                      /\ \A j \in 1..Len(otp_tokens) :
                             j # k => otp_tokens'[j] = otp_tokens[j]
            /\ (last.op \in VerifyOps /\ last.user = u /\ last.otp = c /\ last.purpose = p
                    /\ ~last.validate_only /\ last.result = "True")
               => last'.result = "False"
            /\ hit = {} => last'.result = "False"

C5_ConsumeThenReject ==
    /\ []((last.op \in VerifyOps /\ ~last.validate_only /\ last.result = "True")
              => otp_tokens[last.pk].is_used)
    /\ [][C5_Step]_vars

C5_Witness ==
    /\ last.op \in VerifyOps
    /\ last.result = "False"
    /\ \E k \in 1..Len(otp_tokens) :
           /\ Matches(otp_tokens[k], last.user, last.otp, last.purpose)
           /\ accepts[k] = 1
           /\ otp_tokens[k].is_used
           /\ now <= otp_tokens[k].expires_at

\* C6: validate-only verify_otp on an unused, unexpired token returns True and
\* changes no token; repeated while the token is unexpired it returns True
\* again, and a consuming verify after it still returns True for that token.
C6_Step ==
    CallReturns(VerifyOps) =>
        LET u == last'.user
            c == last'.otp
            p == last'.purpose
        IN  /\ last'.validate_only =>
                   /\ otp_tokens' = otp_tokens
                   /\ accepts' = accepts
                   /\ (\E k \in UnusedIn(otp_tokens, u, p) :
                           otp_tokens[k].token = c /\ now <= otp_tokens[k].expires_at)
                      => last'.result = "True"
            /\ (/\ last.op \in VerifyOps /\ last.user = u /\ last.otp = c /\ last.purpose = p
                /\ last.validate_only /\ last.result = "True"
                /\ now <= otp_tokens[last.pk].expires_at)
               => last'.result = "True" /\ last'.pk = last.pk

C6_ValidateOnlyNonDestructive == [][C6_Step]_vars

C6_Witness ==
    /\ last.op = "verify_otp"
    /\ last.validate_only
    /\ last.result = "True"
    /\ ~otp_tokens[last.pk].is_used
    /\ accepts[last.pk] = 0

\* C7: verify_otp never returns True for a token with now > expires_at, where
\* expires_at = created_at + OTP_EXPIRY_MINUTES: on an expired token it
\* returns False and does not mark it used.
C7_Step ==
    CallReturns(VerifyOps) =>
        /\ last'.result = "True" => now <= otp_tokens[last'.pk].expires_at
        /\ \A k \in UnusedIn(otp_tokens, last'.user, last'.purpose) :
               (otp_tokens[k].token = last'.otp /\ now > otp_tokens[k].expires_at)
               => last'.result = "False" /\ otp_tokens' = otp_tokens

C7_ExpiredNeverAccepted ==
    /\ [](\A k \in 1..Len(otp_tokens) :
              otp_tokens[k].expires_at = otp_tokens[k].created_at + OTP_EXPIRY_MINUTES)
    /\ [][C7_Step]_vars

C7_Witness ==
    /\ last.op \in VerifyOps
    /\ last.result = "False"
    /\ \E k \in 1..Len(otp_tokens) :
           /\ Matches(otp_tokens[k], last.user, last.otp, last.purpose)
           /\ ~otp_tokens[k].is_used
           /\ now > otp_tokens[k].expires_at
           /\ last.pk = k

\* C8: every failing verify_otp call returns False, raises nothing and leaves
\* the token table unchanged, in every reachable state of the token table.
C8_UniformFalse ==
    /\ [](last.op \in VerifyOps => last.result \in {"True", "False"})
    /\ [][(last' # last /\ last'.op \in VerifyOps /\ last'.result # "True")
              => otp_tokens' = otp_tokens]_vars

\* C9: is_used never goes back to False, expires_at never changes, no row is
\* removed, and verify_otp never returns True for a token that was used or
\* expired when the call was made.
C9_Step ==
    /\ Len(otp_tokens') >= Len(otp_tokens)
    /\ \A k \in 1..Len(otp_tokens) :
           /\ otp_tokens[k].is_used => otp_tokens'[k].is_used
           /\ otp_tokens'[k].expires_at = otp_tokens[k].expires_at
    /\ (CallReturns(VerifyOps) /\ last'.result = "True")
       => /\ ~otp_tokens[last'.pk].is_used
          /\ now <= otp_tokens[last'.pk].expires_at

C9_UsedExpiredTerminal == [][C9_Step]_vars

C9_Witness ==
    /\ last.op \in VerifyOps
    /\ last.result = "False"
    /\ \E k \in 1..Len(otp_tokens) :
           /\ Matches(otp_tokens[k], last.user, last.otp, last.purpose)
           /\ otp_tokens[k].is_used
           /\ now > otp_tokens[k].expires_at

\* C10: if a password-reset OTP of the user was successfully verified less
\* than 10 minutes before reset_password is called, with no reset call in
\* between, reset_password returns True, stores the new password and leaves
\* the user without unused password-reset OTP.
C10_Step ==
    \A u \in Actors, pw \in Passwords :
        (/\ verified_at[u] # -1
         /\ ~reset_since[u]
         /\ now - verified_at[u] < RESET_WINDOW_MINUTES
         /\ ResetPassword(u, pw))
        => /\ last'.result = "True"
           /\ password'[u] = pw
           /\ UnusedIn(otp_tokens', u, PASSWORD_RESET) = {}

C10_ResetWithinWindow == [][C10_Step]_vars

\* C11: when every successful verification of the user's password-reset OTPs
\* lies more than 10 minutes back and no password-reset OTP was issued for the
\* user since, reset_password returns False and changes neither the password
\* nor any token.
C11_Step ==
    CallReturns({"reset_password"}) =>
        LET u == last'.user IN
        (/\ verified_at[u] = -1 \/ now - verified_at[u] > RESET_WINDOW_MINUTES
         /\ \A k \in 1..Len(otp_tokens) :
                (otp_tokens[k].user = u /\ otp_tokens[k].purpose = PASSWORD_RESET)
                => otp_tokens[k].created_at <= verified_at[u])
        => /\ last'.result = "False"
           /\ password' = password
           /\ otp_tokens' = otp_tokens

C11_StaleVerificationRejected == [][C11_Step]_vars

C11_Witness ==
    /\ last.op = "reset_password"
    /\ last.result = "False"
    /\ verified_at[last.user] # -1
    /\ now - verified_at[last.user] > RESET_WINDOW_MINUTES
    /\ password[last.user] = "pw0"
    /\ \E k \in 1..Len(otp_tokens) :
           /\ otp_tokens[k].user = last.user
           /\ otp_tokens[k].purpose = PASSWORD_RESET
           /\ accepts[k] = 1
    /\ \A k \in 1..Len(otp_tokens) : otp_tokens[k].created_at <= verified_at[last.user]

\* C12: a password reset request for an unknown email creates no token, queues
\* no mail and is answered with the same success response as a request for a
\* known email.
C12_UnknownEmailSameResponse ==
    (last.op = "request_password_reset_otp" /\ last.user = "")
    => /\ dispatch = "none"
       /\ response.status = 200
       /\ response.body = "Password reset OTP has been sent to your email."

\* C13: when delay() raises during request_password_reset_otp the call returns
\* False and raises nothing, the OTP it issued stays stored and unused, the
\* tokens it invalidated stay used, and nothing else changes.
C13_Step ==
    (CallReturns({"request_password_reset_otp"}) /\ dispatch' = "raised") =>
        LET u == last'.user
            n == Len(otp_tokens) + 1
        IN  /\ last'.result = "False"
            /\ Len(otp_tokens') = n
            /\ otp_tokens'[n].user = u
            /\ otp_tokens'[n].token = last'.otp
            /\ otp_tokens'[n].purpose = PASSWORD_RESET
            /\ ~otp_tokens'[n].is_used
            /\ \A k \in 1..Len(otp_tokens) :
                   otp_tokens'[k] =
                       IF k \in UnusedIn(otp_tokens, u, PASSWORD_RESET)
                       THEN [otp_tokens[k] EXCEPT !.is_used = TRUE]
                       ELSE otp_tokens[k]
            /\ password' = password
            /\ outbox' = outbox

C13_DispatchFailureKeepsTokens ==
    /\ [](last.op = "request_password_reset_otp" => last.result \in {"True", "False"})
    /\ [][C13_Step]_vars

C13_Witness ==
    /\ last.op = "request_password_reset_otp"
    /\ dispatch = "raised"
    /\ last.result = "False"
    /\ last.pk = 2
    /\ otp_tokens[1].user = last.user
    /\ otp_tokens[1].purpose = PASSWORD_RESET
    /\ otp_tokens[1].is_used
    /\ accepts[1] = 0
    /\ ~otp_tokens[2].is_used
    /\ Len(outbox) = 1

\* C14: a submission with at least one question_id outside the target quiz's
\* question set is rejected as a whole: no StudentQuizAttempt is created and no
\* existing attempt changes, even when its other answers are valid.
C14_Step ==
    (/\ QuizCallReturns({"submit"})
     /\ quiz_last'.quiz \in DOMAIN quizzes
     /\ \E i \in 1..Len(quiz_last'.answers) :
            quiz_last'.answers[i].question_id \notin quizzes[quiz_last'.quiz].questions)
    => /\ quiz_last'.status = 400
       /\ attempts' = attempts
       /\ attempt_seq' = attempt_seq

C14_RejectedAsAWhole == [][C14_Step]_vars

C14_Witness ==
    /\ quiz_last.op = "submit"
    /\ quiz_last.status = 400
    /\ Len(quiz_last.answers) = 2
    /\ quiz_last.quiz \in DOMAIN quizzes
    /\ LET a == quiz_last.answers
           qs == quizzes[quiz_last.quiz].questions
       IN  /\ a[1].question_id \in qs
           /\ questions[a[1].question_id].correct_option = a[1].selected_option
           /\ questions[a[1].question_id].question_point > 0
           /\ a[2].question_id \notin qs
           /\ a[2].question_id \in DOMAIN questions
    /\ Len(attempts) = 1
    /\ attempt_seq = 1

\* C15: the score stored for an accepted submission is the sum of
\* question_point over the submitted answers whose selected option is the
\* question's correct option, every other answer adding 0 (questions worth 1
\* and 2 points, only the 2-point one answered correctly: score 2, 66.67 %,
\* grade D).
C15_Step ==
    Accepted201 =>
        LET n == Len(attempts) + 1 IN
        /\ Len(attempts') = n
        /\ attempts'[n].pk = quiz_last'.pk
        /\ attempts'[n].student = quiz_last'.student
        /\ attempts'[n].quiz = quiz_last'.quiz
        /\ attempts'[n].score = Earned(questions, quiz_last'.answers)

C15_ScoreIsSumOfCorrect == [][C15_Step]_vars

C15_Witness ==
    /\ quiz_last.op = "submit"
    /\ quiz_last.status = 201
    /\ quiz_last.answers = <<[question_id |-> "q1", selected_option |-> "C"],
                             [question_id |-> "q2", selected_option |-> "C"]>>
    /\ questions = InitialQuestions
    /\ quiz_last.quiz \in DOMAIN quizzes
    /\ quizzes[quiz_last.quiz].questions = {"q1", "q2"}
    /\ LET a == attempts[Len(attempts)] IN
       /\ a.pk = quiz_last.pk
       /\ a.score = 2
       /\ a.progress_percentage.num * 3 = 200 * a.progress_percentage.den
       /\ a.grade = "D"

\* C16: calculate_grade is total and monotonic: every percentage in [0, 100]
\* gets exactly the grade of the highest breakpoint it reaches (>=97 A+, >=93
\* A, >=90 A-, >=87 B+, >=83 B, >=80 B-, >=77 C+, >=73 C, >=70 C-, >=67 D+,
\* >=63 D, >=60 D-, else F), and a higher percentage never gets a lower grade.
C16_Step ==
    (/\ grade # "None"
     /\ grade' # "None"
     /\ percentage'.num * percentage.den >= percentage.num * percentage'.den)
    => Rank(grade') >= Rank(grade)

C16_GradeTotalMonotonic ==
    /\ [](grade # "None" => grade \in GradeNames /\ grade = GradeOf(percentage))
    /\ [][C16_Step]_vars

C16_Witness ==
    /\ percentage.num * 1000 = 96999 * percentage.den
    /\ grade = "A"

\* C17: every stored StudentQuizAttempt has percentage = score / total_points
\* * 100 when the total_points of its quiz at save time is positive and 0
\* otherwise, and its grade is the grade of the table for that stored
\* percentage; none is stored with the placeholder percentage or without grade.
C17_Step ==
    Accepted201 =>
        LET a == attempts'[Len(attempts')]
            total == PointsSum(questions, quizzes[a.quiz].questions)
        IN  IF total > 0
            THEN a.progress_percentage.num * total = a.score * 100 * a.progress_percentage.den
            ELSE a.progress_percentage.num = 0

C17_DerivedFieldsStored ==
    /\ [](\A i \in 1..Len(attempts) :
              /\ attempts[i].progress_percentage.den > 0
              /\ attempts[i].grade = GradeOf(attempts[i].progress_percentage))
    /\ [][C17_Step]_vars

C17_Witness ==
    /\ quiz_last.op = "submit"
    /\ quiz_last.status = 201
    /\ quiz_last.quiz \in DOMAIN quizzes
    /\ quizzes[quiz_last.quiz].questions # {}
    /\ PointsSum(questions, quizzes[quiz_last.quiz].questions) = 0
    /\ LET a == attempts[Len(attempts)] IN
       /\ a.pk = quiz_last.pk
       /\ a.progress_percentage.num = 0
       /\ a.grade = "F"
    /\ Len(attempts) = 2
    /\ attempts[1].score = 3
    /\ attempts[1].grade = "A+"

\* C18: StudentQuizAttempt rows are append-only: no step of any endpoint
\* changes or removes a row that exists, and an accepted submission adds
\* exactly one row.
C18_AppendOnly ==
    [][/\ \A i \in 1..Len(attempts) : \E j \in 1..Len(attempts') : attempts'[j] = attempts[i]
       /\ Accepted201 => Len(attempts') = Len(attempts) + 1]_vars

\* C19: the total_points returned with a graded submission is the sum of the
\* points of all questions of the quiz, whatever subset of them was answered.
C19_TotalPointsOfQuiz ==
    (quiz_last.op = "submit" /\ quiz_last.status = 201)
    => quiz_last.total_points = PointsSum(questions, quizzes[quiz_last.quiz].questions)

\* C20: the performance summary of a student has one entry for every quiz:
\* total_attempts counts the student's attempts on the quiz, the best fields
\* are those of an attempt with maximal score, the latest fields those of an
\* attempt with maximal timestamp, has_passed is (percentage of that best
\* attempt >= passing_score); a quiz without attempts has null best and latest
\* fields and has_passed = FALSE.
C20_PerformanceSummary ==
    quiz_last.op = "performance" =>
        LET summary == quiz_last.summary IN
        /\ DOMAIN summary = DOMAIN quizzes
        /\ \A z \in DOMAIN quizzes :
               LET e == summary[z]
                   mine == {i \in 1..Len(attempts) :
                               attempts[i].student = quiz_last.student /\ attempts[i].quiz = z}
               IN  /\ e.total_attempts = Cardinality(mine)
                   /\ IF mine = {}
                      THEN /\ e.best_score = <<>> /\ e.best_grade = <<>>
                           /\ e.best_percentage = <<>>
                           /\ e.latest_score = <<>> /\ e.latest_grade = <<>>
                           /\ e.latest_percentage = <<>> /\ e.latest_attempt_date = <<>>
                           /\ e.has_passed = FALSE
                      ELSE /\ \E i \in mine :
                                  /\ \A j \in mine : attempts[j].score <= attempts[i].score
                                  /\ e.best_score = <<attempts[i].score>>
                                  /\ e.best_grade = <<attempts[i].grade>>
                                  /\ e.best_percentage = <<attempts[i].progress_percentage>>
                                  /\ e.has_passed =
                                         (attempts[i].progress_percentage.num
                                              >= quizzes[z].passing_score
                                                     * attempts[i].progress_percentage.den)
                           /\ \E i \in mine :
                                  /\ \A j \in mine :
                                         attempts[j].attempted_at <= attempts[i].attempted_at
                                  /\ e.latest_score = <<attempts[i].score>>
                                  /\ e.latest_grade = <<attempts[i].grade>>
                                  /\ e.latest_percentage = <<attempts[i].progress_percentage>>
                                  /\ e.latest_attempt_date = <<attempts[i].attempted_at>>

C20_Witness ==
    /\ quiz_last.op = "performance"
    /\ Len(attempts) = 2
    /\ \A i \in 1..2 : attempts[i].student = quiz_last.student /\ attempts[i].quiz = "z2"
    /\ attempts[1].score = 1 /\ attempts[2].score = 0
    /\ attempts[1].attempted_at < attempts[2].attempted_at
    /\ quiz_last.summary["z2"].total_attempts = 2
    /\ quiz_last.summary["z2"].best_score = <<1>>
    /\ quiz_last.summary["z2"].best_grade = <<"A+">>
    /\ quiz_last.summary["z2"].latest_score = <<0>>
    /\ quiz_last.summary["z2"].latest_attempt_date = <<attempts[2].attempted_at>>
    /\ quiz_last.summary["z2"].has_passed
    /\ quiz_last.summary["z1"].total_attempts = 0
    /\ quiz_last.summary["z1"].best_score = <<>>
    /\ ~quiz_last.summary["z1"].has_passed

\* C21: no operation removes an OTPToken or PasswordResetToken record: every
\* token row that is stored before a step, the deletion of the owning account
\* included, is still stored after it.
C21_TokensNeverRemoved ==
    [][/\ \A k \in 1..Len(otp_tokens) : \E j \in 1..Len(otp_tokens') :
              /\ otp_tokens'[j].user = otp_tokens[k].user
              /\ otp_tokens'[j].token = otp_tokens[k].token
              /\ otp_tokens'[j].purpose = otp_tokens[k].purpose
              /\ otp_tokens'[j].created_at = otp_tokens[k].created_at
       /\ \A k \in 1..Len(reset_tokens) : \E j \in 1..Len(reset_tokens') :
              /\ reset_tokens'[j].user = reset_tokens[k].user
              /\ reset_tokens'[j].created_at = reset_tokens[k].created_at
              /\ reset_tokens'[j].expires_at = reset_tokens[k].expires_at]_vars

\* C22: after any sequence of create_token and mark_as_used calls every user
\* has at most one unused PasswordResetToken; create_token marks every
\* previously unused token of the user used and returns a fresh unused token
\* that expires expiry_hours after its creation.
C22_Step ==
    Len(reset_tokens') = Len(reset_tokens) + 1 =>
        LET n == Len(reset_tokens')
            u == view_last'.caller IN
        /\ view_last'.op = "create_token"
        /\ view_last'.pk = n
        /\ \A k \in 1..Len(reset_tokens) :
               /\ reset_tokens[k].user = u => reset_tokens'[k].is_used
               /\ reset_tokens[k].user # u => reset_tokens'[k] = reset_tokens[k]
        /\ reset_tokens'[n].user = u
        /\ ~reset_tokens'[n].is_used
        /\ reset_tokens'[n].created_at = now
        /\ reset_tokens'[n].expires_at = now + 60 * view_last'.expiry_hours

C22_AtMostOneUnusedReset ==
    /\ [](\A u \in Users : Cardinality(UnusedResetOf(reset_tokens, u)) <= 1)
    /\ [][C22_Step]_vars

\* u1 creates a second token after the clock advanced: the first is used, the
\* second is the only unused one and expires 24 hours after its creation,
\* while the unused token of u2 is untouched.
C22_Witness ==
    /\ Len(reset_tokens) = 3
    /\ view_last.op = "create_token"
    /\ view_last.caller = "u1"
    /\ view_last.pk = 3
    /\ reset_tokens[1].user = "u1"
    /\ reset_tokens[1].is_used
    /\ reset_tokens[2].user = "u2"
    /\ ~reset_tokens[2].is_used
    /\ reset_tokens[3].user = "u1"
    /\ ~reset_tokens[3].is_used
    /\ reset_tokens[3].created_at > reset_tokens[1].created_at
    /\ reset_tokens[3].expires_at = reset_tokens[3].created_at + 1440

\* C23: create_user stores every address fully lowercased, so that
\* get_user_by_email finds every created user under any casing of its address
\* and no two stored users differ only by the case of their email.
C23_EmailStoredLowercase ==
    /\ \A u \in accounts : email[u] = lower(email[u])
    /\ \A u \in accounts, e \in Emails \cup Addresses \cup StoredAddresses :
           lower(e) = lower(email[u]) => get_user_by_email(accounts, e) = u
    /\ \A u, v \in accounts : lower(email[u]) = lower(email[v]) => u = v

\* C24: a role profile is created for a user only in a step in which the
\* user's is_email_verified changes from false to true or in which the user is
\* created already verified, and it is the profile of the user's role; a save
\* of an unverified user, or of a user verified before the save, creates none;
\* and no user has two profiles of the same role.
C24_Step ==
    Len(profiles') > Len(profiles) =>
        LET p == profiles'[Len(profiles')] IN
        /\ Len(profiles') = Len(profiles) + 1
        /\ p.user \in accounts'
        /\ p.model \in {"student", "teacher", "parent"}
        /\ p.model = role'[p.user]
        /\ is_email_verified'[p.user]
        /\ \/ p.user \in accounts /\ ~is_email_verified[p.user]
           \/ p.user \notin accounts

C24_ProfileOnlyOnVerification ==
    /\ [](\A i, j \in 1..Len(profiles) :
              (profiles[i].user = profiles[j].user /\ profiles[i].model = profiles[j].model)
                  => i = j)
    /\ [][C24_Step]_vars

\* u3 registered as a student, verified the address (student profile), asked
\* for and verified a second code, and then changed the role in a profile
\* update: the saves after the first verification created nothing.
C24_Witness ==
    /\ view_last.op = "profile_update"
    /\ view_last.caller = "u3"
    /\ role["u3"] = "teacher"
    /\ is_email_verified["u3"]
    /\ profiles = <<[model |-> "student", user |-> "u3"]>>
    /\ Len(otp_tokens) = 2
    /\ \A k \in 1..2 : otp_tokens[k].user = "u3" /\ otp_tokens[k].is_used
    /\ accepts = <<1, 1>>

\* C25: one successful verification authorizes at most one reset: when the
\* user verified a password-reset OTP and the call that returned last was a
\* reset_password that returned True for the user, a further reset_password
\* for that user, with no verification in between, returns False and leaves
\* the password unchanged.
C25_OneResetPerVerification ==
    [][(/\ last.op = "reset_password"
        /\ last.result = "True"
        /\ verified_at[last.user] >= 0
        /\ CallReturns({"reset_password"})
        /\ last'.user = last.user)
          => (last'.result = "False" /\ password' = password)]_vars

\* C26: every StudentQuizAttempt stored by an accepted submission has
\* 0 <= score <= total points of its quiz when it is created and
\* 0 <= percentage <= 100, whether the submission answers all questions, some
\* of them, or one of them more than once.
C26_ScoreWithinTotal ==
    [][Accepted201 =>
          LET a == attempts'[Len(attempts')]
              total == PointsSum(questions, quizzes[a.quiz].questions) IN
          /\ 0 <= a.score
          /\ a.score <= total
          /\ 0 <= a.progress_percentage.num
          /\ a.progress_percentage.num <= 100 * a.progress_percentage.den]_vars

\* C27: token operations are isolated per (user, purpose): a generate_otp or
\* verify_otp call for (u, p), and a reset_password call for u, leaves every
\* token of another user or another purpose as it was; the token generate_otp
\* adds belongs to (u, p); and the token a verify_otp call for (u, p) accepts
\* was issued for u and p with the code typed.
C27_Step ==
    /\ CallReturns({"generate_otp", "verify_otp", "reset_password"}) =>
           \A k \in 1..Len(otp_tokens) :
               (otp_tokens[k].user # last'.user \/ otp_tokens[k].purpose # last'.purpose)
                   => /\ k <= Len(otp_tokens')
                      /\ otp_tokens'[k] = otp_tokens[k]
    /\ CallReturns({"generate_otp"}) =>
           /\ Len(otp_tokens') = Len(otp_tokens) + 1
           /\ otp_tokens'[Len(otp_tokens')].user = last'.user
           /\ otp_tokens'[Len(otp_tokens')].purpose = last'.purpose
    /\ (CallReturns({"verify_otp"}) /\ last'.result = "True") =>
           /\ last'.pk \in 1..Len(otp_tokens)
           /\ otp_tokens[last'.pk].user = last'.user
           /\ otp_tokens[last'.pk].purpose = last'.purpose
           /\ otp_tokens[last'.pk].token = last'.otp

C27_IsolatedPerUserAndPurpose == [][C27_Step]_vars

\* u1 holds an unused password-reset token with code 1111 and u2 one with code
\* 2222; u2 types 1111: the call returns False and both tokens stay unused.
C27_Witness ==
    /\ Len(otp_tokens) = 2
    /\ otp_tokens[1].user = "u1"
    /\ otp_tokens[1].purpose = PASSWORD_RESET
    /\ otp_tokens[1].token = "1111"
    /\ ~otp_tokens[1].is_used
    /\ otp_tokens[2].user = "u2"
    /\ otp_tokens[2].purpose = PASSWORD_RESET
    /\ otp_tokens[2].token = "2222"
    /\ ~otp_tokens[2].is_used
    /\ last.op = "verify_otp"
    /\ last.user = "u2"
    /\ last.otp = "1111"
    /\ last.purpose = PASSWORD_RESET
    /\ last.result = "False"

\* C28: there is at most one ParentStudent row per (parent, student), and the
\* link follows one lifecycle: a parent's link request for a student with no
\* row creates an active row; with an active row it is rejected and the row is
\* unchanged; with an inactive row it reactivates that same row; an unlink
\* request with an active row sets is_active = false and keeps the row; with
\* no active row it answers not-found and changes nothing.
C28_LinkStep ==
    (/\ ViewCallReturns({"link"})
     /\ role[view_last'.caller] = "parent"
     /\ view_last'.target \in accounts
     /\ role[view_last'.target] = "student") =>
        LET p == view_last'.caller
            s == view_last'.target
            rows == {k \in 1..Len(links) : links[k].parent = p /\ links[k].student = s}
        IN  IF rows = {}
            THEN /\ view_last'.status = 201
                 /\ Len(links') = Len(links) + 1
                 /\ \A k \in 1..Len(links) : links'[k] = links[k]
                 /\ links'[Len(links')].parent = p
                 /\ links'[Len(links')].student = s
                 /\ links'[Len(links')].is_active
            ELSE \A k \in rows :
                     IF links[k].is_active
                     THEN /\ view_last'.status = 400
                          /\ links' = links
                     ELSE /\ view_last'.status = 200
                          /\ view_last'.pk = k
                          /\ Len(links') = Len(links)
                          /\ links'[k].is_active
                          /\ links'[k].parent = p
                          /\ links'[k].student = s
                          /\ \A j \in 1..Len(links) : j # k => links'[j] = links[j]

C28_UnlinkStep ==
    (ViewCallReturns({"unlink"}) /\ role[view_last'.caller] = "parent") =>
        LET p == view_last'.caller
            s == view_last'.target
            active == {k \in 1..Len(links) :
                          links[k].parent = p /\ links[k].student = s /\ links[k].is_active}
        IN  IF active = {}
            THEN /\ view_last'.status = 404
                 /\ links' = links
            ELSE /\ view_last'.status = 200
                 /\ Len(links') = Len(links)
                 /\ \A k \in active : links'[k] = [links[k] EXCEPT !.is_active = FALSE]
                 /\ \A j \in 1..Len(links) : j \notin active => links'[j] = links[j]

C28_LinkLifecycle ==
    /\ [](\A i, j \in 1..Len(links) :
              (links[i].parent = links[j].parent /\ links[i].student = links[j].student)
                  => i = j)
    /\ [][C28_LinkStep /\ C28_UnlinkStep]_vars

\* parent u1 linked student u2, unlinked, and linked again with another
\* relationship: still one row, active again, answered as a reactivation.
C28_Witness ==
    /\ role["u1"] = "parent"
    /\ role["u2"] = "student"
    /\ view_last.op = "link"
    /\ view_last.caller = "u1"
    /\ view_last.target = "u2"
    /\ view_last.status = 200
    /\ view_last.result = "reactivated"
    /\ view_last.pk = 1
    /\ Len(links) = 1
    /\ links[1] = [parent |-> "u1", student |-> "u2", relationship |-> "mother",
                   is_active |-> TRUE]

\* C29: ChildProgressView answers with a student's progress, and
\* MyChildrenListView lists a student, only when the caller has role parent and
\* an active ParentStudent row links the caller to that student; once the link
\* is unlinked, and until it is linked again, neither view shows the student.
C29_Step ==
    /\ ViewCallReturns({"child_progress"}) =>
           LET linked == \E k \in 1..Len(links) :
                             /\ links[k].parent = view_last'.caller
                             /\ links[k].student = view_last'.target
                             /\ links[k].is_active
           IN  /\ view_last'.data \subseteq {view_last'.target}
               /\ (view_last'.data # {} \/ view_last'.status = 200) =>
                      (role[view_last'.caller] = "parent" /\ linked)
    /\ ViewCallReturns({"my_children"}) =>
           \A s \in view_last'.data :
               /\ role[view_last'.caller] = "parent"
               /\ \E k \in 1..Len(links) :
                      /\ links[k].parent = view_last'.caller
                      /\ links[k].student = s
                      /\ links[k].is_active

C29_ProgressOnlyWhileLinked == [][C29_Step]_vars

\* parent u1 linked student u2 and unlinked again; u1 then asks for the list
\* of children: the row is stored inactive and the list is empty.
C29_Witness ==
    /\ role["u1"] = "parent"
    /\ Len(links) = 1
    /\ links[1].parent = "u1"
    /\ links[1].student = "u2"
    /\ ~links[1].is_active
    /\ view_last.op = "my_children"
    /\ view_last.caller = "u1"
    /\ view_last.status = 200
    /\ view_last.data = {}

\* C30: after any sequence of registrations, email verifications and profile
\* updates, every stored user with is_email_verified = true whose current role
\* is student, teacher or parent has a profile row of that current role.
C30_VerifiedUserHasRoleProfile ==
    \A u \in accounts :
        (is_email_verified[u] /\ role[u] \in {"student", "teacher", "parent"})
            => \E k \in 1..Len(profiles) :
                   profiles[k].user = u /\ profiles[k].model = role[u]

TypeOK ==
    /\ attempt_seq <= MaxAttempts
    /\ Len(attempts) <= attempt_seq
    /\ Len(otp_tokens) <= MaxTokens
    /\ Len(accepts) = Len(otp_tokens)
    /\ now \in 0..MaxTime
    /\ Len(reset_tokens) <= MaxResetTokens
    /\ Len(links) <= MaxLinks
    /\ accounts \subseteq DOMAIN email
    /\ DOMAIN role = DOMAIN email

====
